---- MODULE Spec2Model ----
(***************************************************************************)
(* Morphology algorithms of catmaid/algorithms/morphology.py.              *)
(*                                                                         *)
(* A neuron is a rooted tree of nodes 1..size with 3D positions.  One      *)
(* behaviour is one call of one function of the module on one neuron (or   *)
(* on one point list): `call` records the function and its arguments,      *)
(* `ret` its return value, `heap` the mutable vertex maps the call can     *)
(* reach.  Arithmetic is exact: coordinates are integers, edges are        *)
(* parallel to an axis (so every edge length is an integer), and smoothed  *)
(* positions are kept as fractions.                                        *)
(***************************************************************************)
EXTENDS Integers, Sequences, FiniteSets, TLC

VARIABLES neuron, heap, call, ret

vars == <<neuron, heap, call, ret>>

\* ---------------------------------------------------------------- bounds
MaxNodes == 4          \* nodes of a neuron in Spec
MaxResampleNodes == 3  \* nodes of a neuron in SpecResample
MaxStep == 7           \* longest edge of a neuron in SpecResample
MaxDistance == 2       \* largest resampling distance
MaxLen == 4            \* longest point list in SpecPoints
MaxPtStep == 2         \* longest step between adjacent points in SpecPoints
MaxExp == 4            \* largest exponent m of min_effect = b^(-m)

\* ------------------------------------------------------------- constants
\* Python's None (for a node id, a base, a soma, an end).
None == -1

\* The reference of the input neuron's skeleton['vertices'] in the heap.
SkelRef == 1

\* fix_axes=None, as a value comparable with a set of axes.
NoneAxes == {None}

Axes == {0, 1, 2}

\* ------------------------------------------------------------ arithmetic
Abs(x) == IF x < 0 THEN -x ELSE x

\* x ** 0.5 for the perfect squares the model's inputs produce.
Sqrt(x) == CHOOSE r \in 0..x : r * r = x

RECURSIVE Pow(_, _)
Pow(b, e) == IF e = 0 THEN 1 ELSE b * Pow(b, e - 1)

RECURSIVE SumSeq(_)
SumSeq(s) == IF s = <<>> THEN 0 ELSE Head(s) + SumSeq(Tail(s))

RECURSIVE Concat(_)
Concat(ss) == IF ss = <<>> THEN <<>> ELSE Head(ss) \o Concat(Tail(ss))

Range(s) == {s[i] : i \in DOMAIN s}

Reverse(s) == [i \in 1..Len(s) |-> s[Len(s) + 1 - i]]

\* The elements of a finite set of integers in ascending order.
SortedSeq(S) ==
    CHOOSE s \in [1..Cardinality(S) -> S] :
        \A i, j \in 1..Cardinality(S) : i < j => s[i] < s[j]

VAdd(p, q) == <<p[1] + q[1], p[2] + q[2], p[3] + q[3]>>

VSub(p, q) == <<p[1] - q[1], p[2] - q[2], p[3] - q[3]>>

\* numpy.linalg.norm of a vector, squared.
Norm2(p) == p[1] * p[1] + p[2] * p[2] + p[3] * p[3]

\* ------------------------------------------------------ the Neuron object
\* neuron.nodes: the node identifiers.
Nodes(n) == 1..n.size

\* graph.succ[v] of neuron.dgraph (parent -> children), as a set.
Children(n, v) == {c \in Nodes(n) : n.parent[c] = v}

\* graph.succ[v].keys(), in ascending identifier order.
succ(n, v) == SortedSeq(Children(n, v))

\* neuron.root: the node with no predecessor.
root(n) == CHOOSE v \in Nodes(n) : n.parent[v] = None

\* neuron.leaves: nodes with no children.
leaves(n) == {v \in Nodes(n) : Children(n, v) = {}}

\* neuron.bifurcations: nodes with more than one child.
bifurcations(n) == {v \in Nodes(n) : Cardinality(Children(n, v)) > 1}

\* neuron.edges[v]: the nodes joined to v by an edge, parent included.
edges(n, v) == Children(n, v) \cup ({n.parent[v]} \ {None})

\* The directed edges (u, v) of neuron.dgraph in iteration order.
dgraph_edges(n) ==
    LET E == {c \in Nodes(n) : n.parent[c] # None}
    IN  [i \in 1..Cardinality(E) |-> <<n.parent[SortedSeq(E)[i]], SortedSeq(E)[i]>>]

\* The path from v up to the root.
RECURSIVE Ancestors(_, _)
Ancestors(n, v) ==
    IF n.parent[v] = None THEN <<v>> ELSE <<v>> \o Ancestors(n, n.parent[v])

\* networkx.shortest_path(neuron.graph, a, b) on the undirected tree.
shortest_path(n, a, b) ==
    LET pa == Ancestors(n, a)
        pb == Ancestors(n, b)
        ia == CHOOSE i \in 1..Len(pa) :
                /\ pa[i] \in Range(pb)
                /\ \A k \in 1..(i - 1) : pa[k] \notin Range(pb)
        ib == CHOOSE i \in 1..Len(pb) : pb[i] = pa[ia]
    IN  SubSeq(pa, 1, ia) \o Reverse(SubSeq(pb, 1, ib - 1))

\* ------------------------------------------------------------- geometry
\* distance(neuron, v0, v1) over the vertex map verts.
distance(verts, v0, v1) == Sqrt(Norm2(VSub(verts[v0], verts[v1])))

\* The summed distance between consecutive nodes of a path.
PathSum(verts, path) ==
    SumSeq([i \in 1..(Len(path) - 1) |-> distance(verts, path[i], path[i + 1])])

\* find_path / path_length
path_length(n, verts, v0, v1) == PathSum(verts, shortest_path(n, v0, v1))

\* --------------------------------------------------------- branch_order
branch_order(n, v, base) ==
    LET b == IF base = None THEN n.soma ELSE base
    IN  IF base = None /\ n.soma = None
        THEN None
        ELSE LET path == shortest_path(n, b, v)
             IN  Cardinality({i \in 1..Len(path) :
                                 Cardinality(edges(n, path[i])) > 2})

\* ------------------------------------------------------ unique_neurites
\* The first loop's body: the neurites that end at one bifurcation.
BifurcationNeurites(n, base, bifurcation) ==
    LET path == shortest_path(n, base, bifurcation)
        bs == {b \in bifurcations(n) : b \in Range(path) /\ b # bifurcation}
    IN  IF bs # {}
        THEN {shortest_path(n, b, bifurcation) : b \in
                {b \in bs :
                    {bi \in bifurcations(n) :
                        /\ bi \in Range(shortest_path(n, b, bifurcation))
                        /\ bi # bifurcation
                        /\ bi # b} = {}}}
        ELSE {path}

LeafNeurites_dropped(n, base, leaf) ==
    LET path == shortest_path(n, base, leaf)
        bs == {b \in bifurcations(n) : b \in Range(path)}
    IN  IF bs # {}
        THEN {shortest_path(n, b, leaf) : b \in
                {b \in bs :
                    {bi \in bifurcations(n) :
                        /\ bi \in Range(shortest_path(n, b, leaf))
                        /\ bi # b} = {}}}
        ELSE {}

\* The second loop's body: the neurites that end at one leaf.
LeafNeurites(n, base, leaf) ==
    LET path == shortest_path(n, base, leaf)
        bs == {b \in bifurcations(n) : b \in Range(path)}
    IN  IF bs # {}
        THEN {shortest_path(n, b, leaf) : b \in
                {b \in bs :
                    {bi \in bifurcations(n) :
                        /\ bi \in Range(shortest_path(n, b, leaf))
                        /\ bi # b} = {}}}
        ELSE {path}

\* unique_neurites(neu, base): the set of node tuples.
unique_neurites(n, base) ==
    LET b == IF base = None THEN root(n) ELSE base
    IN  UNION {BifurcationNeurites(n, b, bf) : bf \in bifurcations(n) \ {b}}
        \cup UNION {LeafNeurites(n, b, leaf) : leaf \in leaves(n)}

RECURSIVE SumOver(_, _)
SumOver(verts, S) ==
    IF S = {} THEN 0
    ELSE LET p == CHOOSE x \in S : TRUE
         IN  PathSum(verts, p) + SumOver(verts, S \ {p})

total_pathlength(n, verts) == SumOver(verts, unique_neurites(n, None))

\* ------------------------------------------------- resampled_edge_array
\* n * delta for the unit vector n = (vp - up) / d of an edge of length d.
AlongEdge(up, vp, d, delta) ==
    <<((vp[1] - up[1]) * delta) \div d,
      ((vp[2] - up[2]) * delta) \div d,
      ((vp[3] - up[3]) * delta) \div d>>

MoreSubEdges_inclusive(delta, d) == delta <= d

\* The condition of the while loop that cuts an edge.
MoreSubEdges(delta, d) == delta < d

\* The while loop and the append that follows it; a row is <<s, e>>.
RECURSIVE SubEdges(_, _, _, _, _, _)
SubEdges(up, vp, d, s, delta, dist) ==
    IF MoreSubEdges(delta, d)
    THEN LET e == VAdd(AlongEdge(up, vp, d, delta), up)
         IN  <<<<s, e>>>> \o SubEdges(up, vp, d, e, delta + dist, dist)
    ELSE <<<<s, vp>>>>

\* The loop body for one edge (u, v) with positions up, vp.
ResampleEdge(up, vp, dist) ==
    LET d == Sqrt(Norm2(VSub(vp, up)))
    IN  IF d > dist
        THEN SubEdges(up, vp, d, up, dist, dist)
        ELSE <<<<up, vp>>>>

resampled_edge_array(n, verts, dist) ==
    Concat([i \in 1..Len(dgraph_edges(n)) |->
              ResampleEdge(verts[dgraph_edges(n)[i][1]],
                           verts[dgraph_edges(n)[i][2]], dist)])

\* ------------------------------------------------- resampled_node_array
\* origin + slope * scale, with scale = distance / l.
NewPoint(origin, slope, dist, l) ==
    <<origin[1] + (slope[1] * dist) \div l,
      origin[2] + (slope[2] * dist) \div l,
      origin[3] + (slope[3] * dist) \div l>>

\* The for loop over xrange(breaks) and the append that follows it.
RECURSIVE Breaks(_, _, _, _, _)
Breaks(origin, slope, dist, l, left) ==
    IF left = 0
    THEN <<origin>>
    ELSE <<origin>> \o Breaks(NewPoint(origin, slope, dist, l), slope, dist, l, left - 1)

EdgePoints_short_if_equal(sn, en, dist) ==
    LET l == Sqrt(Norm2(VSub(sn, en)))
    IN  IF l <= dist
        THEN <<sn>>
        ELSE Breaks(sn, VSub(en, sn), dist, l, l \div dist)

\* The points appended for one walked edge from sn to en.
EdgePoints(sn, en, dist) ==
    LET l == Sqrt(Norm2(VSub(sn, en)))
    IN  IF l < dist
        THEN <<sn>>
        ELSE Breaks(sn, VSub(en, sn), dist, l, l \div dist)

\* The while loop, with `nodes` the list built so far; the recursive calls
\* for the other children of a branch point run before the first child.
RECURSIVE Walk(_, _, _, _, _, _)
RECURSIVE WalkOthers(_, _, _, _, _, _)
Walk(n, verts, dist, start, end, nodes) ==
    IF end = None
    THEN IF Len(succ(n, start)) = 0
         THEN nodes
         ELSE Walk(n, verts, dist, start, succ(n, start)[1],
                   WalkOthers(n, verts, dist, start, Tail(succ(n, start)), nodes))
    ELSE Walk(n, verts, dist, end, None,
              nodes \o EdgePoints(verts[start], verts[end], dist))

WalkOthers(n, verts, dist, start, others, nodes) ==
    IF others = <<>>
    THEN nodes
    ELSE WalkOthers(n, verts, dist, start, Tail(others),
                    Walk(n, verts, dist, start, Head(others), nodes))

resampled_node_array(n, verts, dist, start, end) ==
    Walk(n, verts, dist, IF start = None THEN root(n) ELSE start, end, <<>>)

\* --------------------------------------------------- find_nearby_points
\* Real arguments are kept exact.  max_dist is the real sqrt(max_dist.sq);
\* sigma is the real with 2 * sigma^2 = 1 / ln(sigma.base); min_effect is the
\* real min_effect.base ^ (-min_effect.exp).  A smoothed position is the
\* fraction <<nx, ny, nz, den>>, standing for (nx/den, ny/den, nz/den).

\* max_dist * max_dist
md2(max_dist) == max_dist.sq

\* numpy.abs(pts[1:] - pts[:-1]).sum(axis=1)
dpts(pts) ==
    [k \in 1..(Len(pts) - 1) |->
        Abs(pts[k + 1][1] - pts[k][1]) + Abs(pts[k + 1][2] - pts[k][2])
            + Abs(pts[k + 1][3] - pts[k][3])]

WithinMaxDist_inclusive(d, m) == d <= m

\* The test that keeps a point while walking away from the current one.
WithinMaxDist(d, m) == d < m

\* The walk in the positive direction: the indices i + j kept, in order.
RECURSIVE Forward(_, _, _, _, _, _)
Forward(dp, len, i, j, d, m) ==
    IF i + j <= len
    THEN IF WithinMaxDist(d + dp[i + j - 1], m)
         THEN <<i + j>> \o Forward(dp, len, i, j + 1, d + dp[i + j - 1], m)
         ELSE <<>>
    ELSE <<>>

\* The walk in the negative direction (j < 0).
RECURSIVE Backward(_, _, _, _, _)
Backward(dp, i, j, d, m) ==
    IF i + j >= 1
    THEN IF WithinMaxDist(d + dp[i + j], m)
         THEN <<i + j>> \o Backward(dp, i, j - 1, d + dp[i + j], m)
         ELSE <<>>
    ELSE <<>>

\* The indices (counted from 1) close to point i, in the order appended.
NearbyIndices(pts, max_dist, include_point, i) ==
    (IF include_point THEN <<i>> ELSE <<>>)
        \o Forward(dpts(pts), Len(pts), i, 1, 0, md2(max_dist))
        \o Backward(dpts(pts), i, -1, 0, md2(max_dist))

find_nearby_points(pts, max_dist, return_value, include_point) ==
    [i \in 1..Len(pts) |->
        LET cpts == NearbyIndices(pts, max_dist, include_point, i)
        IN  IF return_value
            THEN [k \in 1..Len(cpts) |-> pts[cpts[k]]]
            ELSE cpts]

\* ----------------------------------------------- gaussian_smooth_points
\* numpy.sqrt(-numpy.log(min_effect) * 2 * sigma * sigma)
max_dist_of(sigma, min_effect) == [sq |-> min_effect.exp]

PassThrough_first_only(i, len, nb) == i = 1 \/ Len(nb) = 0

\* i == 0 or i == len(pts) - 1 or len(npts[i]) == 0
PassThrough(i, len, nb) == i = 1 \/ i = len \/ Len(nb) = 0

RECURSIVE MaxOf(_)
MaxOf(s) ==
    IF Len(s) = 1 THEN Head(s)
    ELSE IF Head(s) > MaxOf(Tail(s)) THEN Head(s) ELSE MaxOf(Tail(s))

\* The weights [1, exp(-dists^2 / (2 sigma^2))], all multiplied by
\* base^M for M the largest squared distance, which makes them integers.
Weights(pt, nb, sigma) ==
    LET d2s == [k \in 1..Len(nb) |-> Norm2(VSub(nb[k], pt))]
    IN  <<Pow(sigma.base, MaxOf(d2s))>>
            \o [k \in 1..Len(nb) |-> Pow(sigma.base, MaxOf(d2s) - d2s[k])]

SumWeights_count(ws) == Len(ws) * ws[1]

\* ws.sum()
SumWeights(ws) == SumSeq(ws)

\* numpy.sum(apts * nws[:, numpy.newaxis], axis=0), as a fraction.
WeightedAverage(pt, nb, sigma) ==
    LET ws == Weights(pt, nb, sigma)
        apts == <<pt>> \o nb
    IN  <<SumSeq([k \in 1..Len(ws) |-> ws[k] * apts[k][1]]),
          SumSeq([k \in 1..Len(ws) |-> ws[k] * apts[k][2]]),
          SumSeq([k \in 1..Len(ws) |-> ws[k] * apts[k][3]]),
          SumWeights(ws)>>

\* for fa in fix_axes: spt[fa] = pt[fa]
FixAxes(spt, pt, fix_axes) ==
    [a \in 1..4 |-> IF (a - 1) \in fix_axes THEN pt[a] * spt[4] ELSE spt[a]]

\* The fix_axes in force after the function's first lines.
EffectiveFixAxes(fix_axes) == IF fix_axes = NoneAxes THEN {} ELSE {2}

gaussian_smooth_points(pts, sigma, min_effect, fix_axes) ==
    LET npts == find_nearby_points(pts, max_dist_of(sigma, min_effect), TRUE, FALSE)
    IN  [i \in 1..Len(pts) |->
            IF PassThrough(i, Len(pts), npts[i])
            THEN <<pts[i][1], pts[i][2], pts[i][3], 1>>
            ELSE FixAxes(WeightedAverage(pts[i], npts[i], sigma), pts[i],
                         EffectiveFixAxes(fix_axes))]

\* ----------------------------------------------- gaussian_smooth_neuron
\* node_array(neuron, node_list)
node_array(verts, node_list) == [i \in 1..Len(node_list) |-> verts[node_list[i]]]

deepcopy_alias(h, ref) == [heap |-> h, ref |-> ref]

\* copy.deepcopy: a new object with the same contents.
deepcopy(h, ref) ==
    LET new == CHOOSE r \in 1..(Cardinality(DOMAIN h) + 1) : r \notin DOMAIN h
    IN  [heap |-> h @@ (new :> h[ref]), ref |-> new]

\* The value stored by v['x'] = s[0]; v['y'] = s[1]; v['z'] = s[2]: the
\* triple of integers when the fraction is one, else the fraction.
StoredVertex(spt) ==
    IF \A a \in 1..3 : spt[a] % spt[4] = 0
    THEN <<spt[1] \div spt[4], spt[2] \div spt[4], spt[3] \div spt[4]>>
    ELSE spt

\* The loop over the neurites uns, writing into the vertex map at sk.
RECURSIVE SmoothNeurites(_, _, _, _, _, _, _)
SmoothNeurites(h, n, sk, uns, sigma, min_effect, fix_axes) ==
    IF uns = {}
    THEN h
    ELSE LET un == CHOOSE x \in uns : TRUE
             pts == node_array(h[n.skeleton], un)
             spts == gaussian_smooth_points(pts, sigma, min_effect, fix_axes)
             written == [h EXCEPT ![sk] =
                            [v \in DOMAIN @ |->
                                IF v \in Range(un)
                                THEN StoredVertex(
                                        spts[CHOOSE i \in 1..Len(un) : un[i] = v])
                                ELSE @[v]]]
         IN  SmoothNeurites(written, n, sk, uns \ {un}, sigma, min_effect, fix_axes)

\* Returns the heap after the call and the reference returned.
gaussian_smooth_neuron(h, n, sigma, min_effect, fix_axes) ==
    LET fa == IF fix_axes = NoneAxes THEN {} ELSE fix_axes
        sk == deepcopy(h, n.skeleton)
    IN  [heap |-> SmoothNeurites(sk.heap, n, sk.ref, unique_neurites(n, None),
                                 sigma, min_effect, fa),
         ref |-> sk.ref]

\* ------------------------------------------------------------ the inputs
TreeShapes(N) ==
    {p \in [1..N -> {None} \cup 1..N] :
        /\ p[1] = None
        /\ \A i \in 2..N : p[i] # None /\ p[i] < i}

\* The position of every node: the root at the origin, a child at its
\* parent's position plus its offset.
RECURSIVE Place(_, _, _)
Place(p, off, i) ==
    IF p[i] = None THEN <<0, 0, 0>> ELSE VAdd(Place(p, off, p[i]), off[i])

Positions(p, off) == [i \in DOMAIN p |-> Place(p, off, i)]

\* Edge vectors of the neurons of Spec.
Offsets == {<<1, 0, 0>>, <<0, 0, 1>>}

Idle == [op |-> "none"]

InitTree(maxNodes, offsets, somas) ==
    \E N \in 1..maxNodes :
        \E p \in TreeShapes(N) :
            \E off \in [2..N -> offsets] :
                \E s \in (IF somas THEN {None} \cup 1..N ELSE {None}) :
                    /\ neuron = [size |-> N, parent |-> p, soma |-> s,
                                 skeleton |-> SkelRef]
                    /\ heap = (SkelRef :> Positions(p, off))
                    /\ call = Idle
                    /\ ret = None

Init == InitTree(MaxNodes, Offsets, TRUE)

\* neuron.skeleton['vertices'], which neuron.nodes also names.
Vertices == heap[neuron.skeleton]

\* -------------------------------------------------------------- actions
UniqueNeurites ==
    \E base \in {None} \cup Nodes(neuron) :
        /\ call = Idle
        /\ call' = [op |-> "unique_neurites", base |-> base]
        /\ ret' = unique_neurites(neuron, base)
        /\ UNCHANGED <<neuron, heap>>

TotalPathlength ==
    /\ call = Idle
    /\ call' = [op |-> "total_pathlength"]
    /\ ret' = total_pathlength(neuron, Vertices)
    /\ UNCHANGED <<neuron, heap>>

BranchOrder ==
    \E v \in Nodes(neuron), base \in {None} \cup Nodes(neuron) :
        /\ call = Idle
        /\ call' = [op |-> "branch_order", v |-> v, base |-> base]
        /\ ret' = branch_order(neuron, v, base)
        /\ UNCHANGED <<neuron, heap>>

\* The sigma arguments: 2 * sigma^2 = 1 / ln 2 and 1 / ln 3.
SigmaBases == {2, 3}

FixAxesArgs == {NoneAxes, {}, {0}, {2}}

GaussianSmoothNeuron ==
    \E b \in SigmaBases, m \in 0..MaxExp, fa \in FixAxesArgs :
        /\ call = Idle
        /\ call' = [op |-> "gaussian_smooth_neuron", sigma |-> [base |-> b],
                    min_effect |-> [base |-> b, exp |-> m], fix_axes |-> fa]
        /\ LET r == gaussian_smooth_neuron(heap, neuron, [base |-> b],
                                           [base |-> b, exp |-> m], fa)
           IN  heap' = r.heap /\ ret' = r.ref
        /\ UNCHANGED neuron

Next ==
    \/ UniqueNeurites
    \/ TotalPathlength
    \/ BranchOrder

\* Smoothing reads no soma.
InitSmooth == InitTree(MaxNodes, Offsets, FALSE)

NextSmooth == GaussianSmoothNeuron

SpecSmooth == InitSmooth /\ [][NextSmooth]_vars

Spec == Init /\ [][Next]_vars

\* Edge vectors of the neurons of SpecResample.
ResampleOffsets ==
    {<<k, 0, 0>> : k \in 1..MaxStep} \cup {<<0, 0, k>> : k \in 1..MaxStep}

InitResample == InitTree(MaxResampleNodes, ResampleOffsets, FALSE)

ResampledEdgeArray ==
    \E dist \in 1..MaxDistance :
        /\ call = Idle
        /\ call' = [op |-> "resampled_edge_array", distance |-> dist]
        /\ ret' = resampled_edge_array(neuron, Vertices, dist)
        /\ UNCHANGED <<neuron, heap>>

ResampledNodeArray ==
    \E dist \in 1..MaxDistance :
        /\ call = Idle
        /\ call' = [op |-> "resampled_node_array", distance |-> dist,
                    start |-> None, end |-> None]
        /\ ret' = resampled_node_array(neuron, Vertices, dist, None, None)
        /\ UNCHANGED <<neuron, heap>>

NextResample ==
    \/ ResampledEdgeArray
    \/ ResampledNodeArray

SpecResample == InitResample /\ [][NextResample]_vars

\* Steps between adjacent points of the point lists of SpecPoints.
PtSteps == {<<k, 0, 0>> : k \in 1..MaxPtStep} \cup {<<0, 0, 1>>}

\* The point list that starts at the origin and takes the given steps.
RECURSIVE PointsFrom(_, _)
PointsFrom(p, steps) ==
    IF steps = <<>> THEN <<p>>
    ELSE <<p>> \o PointsFrom(VAdd(p, Head(steps)), Tail(steps))

PointLists ==
    UNION {{PointsFrom(<<0, 0, 0>>, st) : st \in [1..k -> PtSteps]} :
             k \in 0..(MaxLen - 1)}

\* No neuron takes part: the functions take a point list.
InitPoints ==
    /\ neuron = [size |-> 1, parent |-> <<None>>, soma |-> None,
                 skeleton |-> SkelRef]
    /\ heap = (SkelRef :> <<<<0, 0, 0>>>>)
    /\ call = Idle
    /\ ret = None

FindNearbyPoints ==
    \E pts \in PointLists, m \in 0..MaxExp, rv \in BOOLEAN, ip \in BOOLEAN :
        /\ call = Idle
        /\ call' = [op |-> "find_nearby_points", pts |-> pts,
                    max_dist |-> [sq |-> m], return_value |-> rv,
                    include_point |-> ip]
        /\ ret' = find_nearby_points(pts, [sq |-> m], rv, ip)
        /\ UNCHANGED <<neuron, heap>>

GaussianSmoothPoints ==
    \E pts \in PointLists, b \in SigmaBases, m \in 0..MaxExp, fa \in FixAxesArgs :
        /\ call = Idle
        /\ call' = [op |-> "gaussian_smooth_points", pts |-> pts,
                    sigma |-> [base |-> b],
                    min_effect |-> [base |-> b, exp |-> m], fix_axes |-> fa]
        /\ ret' = gaussian_smooth_points(pts, [base |-> b],
                                         [base |-> b, exp |-> m], fa)
        /\ UNCHANGED <<neuron, heap>>

NextPoints ==
    \/ FindNearbyPoints
    \/ GaussianSmoothPoints

SpecPoints == InitPoints /\ [][NextPoints]_vars

\* ------------------------------------------------- claims on tree calls
\* The tree's undirected edges, each as the set of its two nodes.
TreeEdges(n) == {{c, n.parent[c]} : c \in {c \in Nodes(n) : n.parent[c] # None}}

\* The places <<segment, k>> where a segment steps over the edge e.
Covering(segs, e) ==
    {sk \in UNION {{<<s, k>> : k \in 1..(Len(s) - 1)} : s \in segs} :
        {sk[1][sk[2]], sk[1][sk[2] + 1]} = e}

\* C1: for every tree and every base, every tree edge lies on exactly one
\* segment returned by unique_neurites(base), as a pair of consecutive nodes.
C1_EdgesPartitionedAnyBase ==
    call.op = "unique_neurites" =>
        \A e \in TreeEdges(neuron) : Cardinality(Covering(ret, e)) = 1

\* C2 as stated: a single-node tree gives an empty collection of segments,
\* and a total path length of 0.
C2_SingleNodeEmpty ==
    neuron.size = 1 =>
        /\ call.op = "unique_neurites" => ret = {}
        /\ call.op = "total_pathlength" => ret = 0

\* C2 amended: a single-node tree gives exactly the one-node segment (root,),
\* which has no edge, and a total path length of 0.
C2_SingleNodeTrivialSegment ==
    neuron.size = 1 =>
        /\ call.op = "unique_neurites" => ret = {<<root(neuron)>>}
        /\ call.op = "total_pathlength" => ret = 0

C2_Witness ==
    /\ neuron.size = 1
    /\ call.op = "unique_neurites"
    /\ Cardinality(ret) = 1

\* C8: branch_order(v, base) is the number of nodes with more than one child
\* on the path from base to v, both ends counted; None when base is unset
\* and the neuron has no soma.
C8_BranchOrderCountsBifurcations ==
    call.op = "branch_order" =>
        IF call.base = None /\ neuron.soma = None
        THEN ret = None
        ELSE LET b == IF call.base = None THEN neuron.soma ELSE call.base
             IN  ret = Cardinality(Range(shortest_path(neuron, b, call.v))
                                    \cap bifurcations(neuron))

\* ------------------------------------------------- claims on resampling
\* The chain the claim describes for an edge from up to vp of length l:
\* one sub-edge when l <= dist, else ceil(l / dist) sub-edges, the j-th
\* from up + (j-1)*dist to up + j*dist along the edge, the last ending at vp.
ChainPoint(up, vp, l, dist, k, j) ==
    IF j = k THEN vp ELSE VAdd(up, AlongEdge(up, vp, l, j * dist))

ExpectedChain(up, vp, dist) ==
    LET l == Sqrt(Norm2(VSub(vp, up)))
        k == IF l <= dist THEN 1 ELSE (l + dist - 1) \div dist
    IN  [j \in 1..k |-> <<ChainPoint(up, vp, l, dist, k, j - 1),
                          ChainPoint(up, vp, l, dist, k, j)>>]

\* C3: for every edge (u, v) of length l, resampled_edge_array emits a
\* contiguous chain from u to v: the edge itself when l <= D, else ceil(l/D)
\* sub-edges, all of length D but the last, of length l - (k-1)*D in (0, D].
C3_EdgeChain ==
    call.op = "resampled_edge_array" =>
        /\ ret = Concat([i \in 1..Len(dgraph_edges(neuron)) |->
                    ExpectedChain(Vertices[dgraph_edges(neuron)[i][1]],
                                  Vertices[dgraph_edges(neuron)[i][2]],
                                  call.distance)])
        /\ \A i \in 1..Len(ret) :
              LET len == Sqrt(Norm2(VSub(ret[i][2], ret[i][1])))
              IN  \/ len = call.distance
                  \/ /\ 0 < len
                     /\ len < call.distance
                     /\ ret[i][2] \in Range(Vertices)

\* An edge of length 3.5 * D cut into sub-edges of length D, D, D, D/2.
C3_Witness ==
    /\ call.op = "resampled_edge_array"
    /\ neuron.size = 2
    /\ call.distance = 2
    /\ Vertices[2] = <<7, 0, 0>>
    /\ ret = << <<<<0, 0, 0>>, <<2, 0, 0>>>>, <<<<2, 0, 0>>, <<4, 0, 0>>>>,
                <<<<4, 0, 0>>, <<6, 0, 0>>>>, <<<<6, 0, 0>>, <<7, 0, 0>>>> >>

\* C4: the point list of resampled_node_array started at the root holds the
\* coordinates of every node of the neuron.
C4_EveryNodeEmitted ==
    call.op = "resampled_node_array" =>
        \A v \in Nodes(neuron) : Vertices[v] \in Range(ret)

\* The tree edges in the order the walk from v takes them: at a branch
\* point the subtrees of the later children come first, then the first child.
RECURSIVE WalkedEdges(_, _)
WalkedEdges(n, v) ==
    LET cs == succ(n, v)
        order == IF cs = <<>> THEN <<>> ELSE Tail(cs) \o <<Head(cs)>>
    IN  Concat([k \in 1..Len(order) |->
                  <<<<v, order[k]>>>> \o WalkedEdges(n, order[k])])

\* The points the claim gives for an edge from sn to en of length l: the
\* start alone when l < dist, else start + i * (dist / l) * (en - sn) for
\* i = 0..floor(l / dist).
ClaimedEdgePoints(sn, en, dist) ==
    LET l == Sqrt(Norm2(VSub(en, sn)))
    IN  IF l < dist
        THEN <<sn>>
        ELSE [i \in 1..((l \div dist) + 1) |->
                <<sn[1] + ((i - 1) * dist * (en[1] - sn[1])) \div l,
                  sn[2] + ((i - 1) * dist * (en[2] - sn[2])) \div l,
                  sn[3] + ((i - 1) * dist * (en[3] - sn[3])) \div l>>]

\* C11: for each walked edge (start, end) of length l, resampled_node_array
\* emits the start alone when l < D, and else the floor(l/D) + 1 points
\* start + i * (D/l) * (end - start), i = 0..floor(l/D): consecutive points
\* of the edge are D apart and none lies beyond end.
C11_PointsPerEdge ==
    call.op = "resampled_node_array" =>
        LET we == WalkedEdges(neuron, root(neuron))
            per == [k \in 1..Len(we) |->
                      ClaimedEdgePoints(Vertices[we[k][1]], Vertices[we[k][2]],
                                        call.distance)]
        IN  /\ Len(we) = neuron.size - 1
            /\ ret = Concat(per)
            /\ \A k \in 1..Len(we) :
                  LET l == distance(Vertices, we[k][1], we[k][2])
                  IN  /\ Len(per[k]) = IF l < call.distance THEN 1
                                       ELSE (l \div call.distance) + 1
                      /\ per[k][1] = Vertices[we[k][1]]
                      /\ \A i \in 1..(Len(per[k]) - 1) :
                            Norm2(VSub(per[k][i + 1], per[k][i]))
                                = call.distance * call.distance
                      /\ \A i \in 1..Len(per[k]) :
                            Sqrt(Norm2(VSub(per[k][i], Vertices[we[k][1]])))
                              + Sqrt(Norm2(VSub(Vertices[we[k][2]], per[k][i])))
                                = l

\* A short edge (l = 1 < D = 2) gives its start alone, and an edge of length
\* 7 gives the four points at 0, 2, 4, 6 from its start.
C11_Witness ==
    /\ call.op = "resampled_node_array"
    /\ neuron.size = 3
    /\ neuron.parent = <<None, 1, 2>>
    /\ call.distance = 2
    /\ Vertices = <<<<0, 0, 0>>, <<1, 0, 0>>, <<1, 0, 7>>>>
    /\ ret = <<<<0, 0, 0>>, <<1, 0, 0>>, <<1, 0, 2>>, <<1, 0, 4>>, <<1, 0, 6>>>>

\* -------------------------------------------------- claims on smoothing
\* The summed L1 step sizes along the sequence between positions i and j.
PathDistance(pts, i, j) ==
    LET lo == IF i < j THEN i ELSE j
        hi == IF i < j THEN j ELSE i
    IN  SumSeq([k \in 1..(hi - lo) |-> dpts(pts)[lo + k - 1]])

\* The positions within path distance max_dist^2 of position i.
PathNeighbours(pts, max_dist, i) ==
    {j \in 1..Len(pts) : j # i /\ PathDistance(pts, i, j) < max_dist.sq}

\* The smoothed position spt equals the input position pt.
SamePosition(spt, pt) ==
    /\ spt[1] = pt[1] * spt[4]
    /\ spt[2] = pt[2] * spt[4]
    /\ spt[3] = pt[3] * spt[4]

Smoothed == call.op = "gaussian_smooth_points"

SmoothRadius == max_dist_of(call.sigma, call.min_effect)

\* C5: gaussian_smooth_points returns the first and the last point of a
\* sequence of length >= 2 unchanged, for every sigma and min_effect, and
\* returns unchanged every point with no path-distance neighbour.
C5_EndpointsAndIsolatedUnchanged ==
    Smoothed =>
        /\ Len(ret) = Len(call.pts)
        /\ Len(call.pts) >= 2 =>
              /\ SamePosition(ret[1], call.pts[1])
              /\ SamePosition(ret[Len(ret)], call.pts[Len(call.pts)])
        /\ \A i \in 1..Len(call.pts) :
              PathNeighbours(call.pts, SmoothRadius, i) = {} =>
                  SamePosition(ret[i], call.pts[i])

\* The endpoints stay although they have neighbours and an interior point
\* moved.
C5_Witness ==
    /\ Smoothed
    /\ Len(call.pts) >= 3
    /\ PathNeighbours(call.pts, SmoothRadius, 1) # {}
    /\ PathNeighbours(call.pts, SmoothRadius, Len(call.pts)) # {}
    /\ SamePosition(ret[1], call.pts[1])
    /\ SamePosition(ret[Len(ret)], call.pts[Len(call.pts)])
    /\ \E i \in 2..(Len(call.pts) - 1) : ~SamePosition(ret[i], call.pts[i])

\* Colinear, evenly spaced points: all steps are the same vector.
EvenlySpaced(pts) ==
    \A k \in 1..(Len(pts) - 2) :
        VSub(pts[k + 1], pts[k]) = VSub(pts[k + 2], pts[k + 1])

\* C6 as stated: with fix_axes unset, every point of a colinear, evenly
\* spaced sequence is returned at its input position, interior points with
\* a neighbour window cut off by an end of the sequence included.
C6_EvenlySpacedAllFixed ==
    (Smoothed /\ call.fix_axes = NoneAxes /\ EvenlySpaced(call.pts)) =>
        \A i \in 1..Len(call.pts) : SamePosition(ret[i], call.pts[i])

\* Position i has as many neighbours before it as after it.
BalancedWindow(pts, max_dist, i) ==
    Cardinality({j \in PathNeighbours(pts, max_dist, i) : j < i})
        = Cardinality({j \in PathNeighbours(pts, max_dist, i) : j > i})

\* C6 amended: with fix_axes unset, a colinear, evenly spaced sequence keeps
\* its first and last point and every interior point that has as many
\* neighbours before it as after it (a window not cut off by an end).
C6_EvenlySpacedBalancedFixed ==
    (Smoothed /\ call.fix_axes = NoneAxes /\ EvenlySpaced(call.pts)) =>
        \A i \in 1..Len(call.pts) :
            (i = 1 \/ i = Len(call.pts)
                \/ BalancedWindow(call.pts, SmoothRadius, i)) =>
                    SamePosition(ret[i], call.pts[i])

\* An interior point averaged with one neighbour on each side stays put.
C6_Witness ==
    /\ Smoothed
    /\ call.fix_axes = NoneAxes
    /\ EvenlySpaced(call.pts)
    /\ Len(call.pts) = 4
    /\ PathNeighbours(call.pts, SmoothRadius, 3) = {2, 4}
    /\ ret[3][4] > 1
    /\ SamePosition(ret[3], call.pts[3])

\* C7: an axis of a smoothed interior point with a neighbour keeps its
\* original value when it is listed in fix_axes, and carries the weighted
\* average when it is not (so z is averaged when fix_axes is unset or lists
\* only other axes).
C7_PinnedIffListed ==
    Smoothed =>
        \A i \in 2..(Len(call.pts) - 1) :
            PathNeighbours(call.pts, SmoothRadius, i) # {} =>
                LET nb == find_nearby_points(call.pts, SmoothRadius, TRUE, FALSE)[i]
                    avg == WeightedAverage(call.pts[i], nb, call.sigma)
                IN  \A a \in Axes :
                        IF call.fix_axes # NoneAxes /\ a \in call.fix_axes
                        THEN ret[i][a + 1] = call.pts[i][a + 1] * ret[i][4]
                        ELSE ret[i][a + 1] * avg[4] = avg[a + 1] * ret[i][4]

C9_InputUntouched ==
    [][/\ heap'[SkelRef] = heap[SkelRef]
       /\ neuron' = neuron
       /\ call'.op = "gaussian_smooth_neuron" =>
             /\ ret' # neuron.skeleton
             /\ ret' \in DOMAIN heap'
             /\ DOMAIN heap'[ret'] = DOMAIN heap[SkelRef]]_vars

\* A call that moved a node in the returned copy.
C9_Witness ==
    /\ call.op = "gaussian_smooth_neuron"
    /\ ret # SkelRef
    /\ \E v \in Nodes(neuron) : heap[ret][v] # heap[SkelRef][v]

====
